---- MODULE Spec2Model ----
(***************************************************************************)
(* Statement-execution core of glaredb: the Statement Executor             *)
(* (sqlexec/src/executor.rs), the catalog it mutates through the Catalog   *)
(* Mutator's optimistic version check, the physical mutation operators     *)
(* AlterTableExec (sqlexec/src/planner/physical_plan/alter_table.rs) and   *)
(* NativeTableInsertExec (datasources/src/native/insert.rs), the           *)
(* DropCredentials extension node with its wire format                     *)
(* (sqlexec/src/planner/logical_plan/drop_credentials.rs), the rendering   *)
(* of a RelationalPlan (sqlrel/src/relational.rs) and the test runner of   *)
(* the sqllogictest command (cli/src/args/slt.rs).                         *)
(***************************************************************************)
EXTENDS Integers, Sequences, FiniteSets, TLC

(***************************************************************************)
(* Bounds of the model.                                                    *)
(***************************************************************************)
\* longest SQL string, in statements, handed to Executor::new
MaxStmts == 2
\* number of successful catalog commits in one behaviour
MaxCommits == 2
\* number of live streams of one AlterTableExec plan
MaxStreams == 2
\* partition indexes passed to execute are 0..MaxPartition
MaxPartition == 1
\* most rows the input plan of an insert yields in one run
MaxRows == 2
\* number of writes the table's store commits in one behaviour
MaxWrites == 2
\* longest names list of a DropCredentials node
MaxNames == 3
\* longest credential name, in bytes
MaxNameLen == 1

\* most nodes of a RelationalPlan that is rendered
MaxPlanNodes == 5

\* most tests handed to run_tests_batched
MaxTests == 3
\* largest --jobs argument
MaxJobs == 2
\* largest batch size (the number of CPUs)
MaxBatchSize == 3

\* catalog versions a behaviour may start from (5 is the version of the
\* scenarios of the specification)
StartVersions == {5}

VARIABLES
    catalog,        \* the shared catalog: [version, entries]
    ncommits,       \* number of successful mutate_and_commit calls so far
    session,        \* the Session the Executor borrows: [version, vars]
    exec_state,     \* "none" | "live": whether an Executor exists
    new_ret,        \* result of the last Executor::new: "none" | "ok" | "parse_error"
    sql_in,         \* the SQL string of the last Executor::new
    statements,     \* Executor.statements, the VecDeque of parsed statements
    parsed,         \* the statements as parsed by Executor::new
    nsome,          \* number of execute_next calls that returned Some
    running,        \* statements whose execute_statement future is suspended
    ret,            \* return value of the last execute_next call
    started,        \* statements handed to execute_statement, in call order
    plans,          \* per client: its AlterTableExec plan
    plan_time,      \* per client: ncommits when its plan was built
    streams,        \* per client: the stream slots execute fills on its plan
    exec_ret,       \* what the last execute call returned
    ins_plan,       \* the NativeTableInsertExec plan and its input plan
    ins_stream,     \* the stream execute made from ins_plan
    table_rows,     \* number of rows in the table the insert writes to
    nwrites,        \* number of writes the table's store has committed
    node,           \* a DropCredentials logical plan node
    buf,            \* the bytes try_encode wrote for node
    decoded,        \* what decoding buf gave
    codec_pc,       \* "idle" | "node" | "encoded" | "decoded"
    query_stream,   \* the stream of the Query result the caller holds
    call,           \* the last method call on a plan node or operator
    slt,            \* SltArgs and the batches of run_tests_batched
    run,            \* the locals of the running run_tests call
    jobs_rx,        \* the results sent on the jobs channel, not yet received
    tasks,          \* the spawned tests that have not sent their result
    deadline        \* whether timeout_at of the running run_tests has passed

vars == <<catalog, ncommits, session, exec_state, new_ret, sql_in, statements,
          parsed, nsome, running, ret, started, plans, plan_time, streams,
          exec_ret, ins_plan, ins_stream, table_rows, nwrites, node, buf,
          decoded, codec_pc, query_stream, call, slt, run, jobs_rx, tasks,
          deadline>>

exec_vars == <<session, exec_state, new_ret, sql_in, statements, parsed,
               nsome, running, ret, started, query_stream>>

ins_vars == <<ins_plan, ins_stream, table_rows, nwrites>>

codec_vars == <<node, buf, decoded, codec_pc>>

slt_vars == <<slt, run, jobs_rx, tasks, deadline>>

lib_vars == <<call, slt_vars>>

phys_vars == <<plans, plan_time, streams, exec_ret, ins_vars, codec_vars,
               lib_vars>>

(***************************************************************************)
(* Catalog Mutator.                                                        *)
(***************************************************************************)
\* the step by which a successful commit advances the catalog version
VersionStep == 1

AlterTable(schema, name, new_name) ==
    [kind |-> "AlterTable", schema |-> schema, name |-> name,
     operation |-> new_name]

CreateObject(name) ==
    [kind |-> "CreateObject", schema |-> "public", name |-> name,
     operation |-> ""]

DropObject(name) ==
    [kind |-> "DropObject", schema |-> "public", name |-> name,
     operation |-> ""]

\* whether one mutation can be applied to a set of catalog entries
MutationValid(entries, m) ==
    CASE m.kind = "AlterTable" ->
            m.name \in entries /\ m.operation \notin entries
      [] m.kind = "CreateObject" -> m.name \notin entries
      [] m.kind = "DropObject" -> m.name \in entries
      [] OTHER -> FALSE

\* the catalog entries after one valid mutation
ApplyMutation(entries, m) ==
    CASE m.kind = "AlterTable" -> (entries \ {m.name}) \cup {m.operation}
      [] m.kind = "CreateObject" -> entries \cup {m.name}
      [] m.kind = "DropObject" -> entries \ {m.name}
      [] OTHER -> entries

RECURSIVE ApplyBatch(_, _)
\* the entries after every mutation of the batch, in order; the set {"!"}
\* stands for a batch one of whose mutations cannot be applied
ApplyBatch(entries, muts) ==
    IF muts = <<>> THEN entries
    ELSE IF ~MutationValid(entries, Head(muts)) THEN {"!"}
    ELSE ApplyBatch(ApplyMutation(entries, Head(muts)), Tail(muts))

\* mutate_and_commit(expected_version, mutations): the outcome and the
\* catalog after the call
mutate_and_commit(cat, expected_version, mutations, backend_ok) ==
    IF expected_version # cat.version
    THEN [result |-> "ConflictError", version |-> cat.version, catalog |-> cat]
    ELSE IF ~backend_ok \/ ApplyBatch(cat.entries, mutations) = {"!"}
    THEN [result |-> "StorageError", version |-> cat.version, catalog |-> cat]
    ELSE [result |-> "Ok",
          version |-> cat.version + VersionStep,
          catalog |-> [version |-> cat.version + VersionStep,
                       entries |-> ApplyBatch(cat.entries, mutations)]]

(***************************************************************************)
(* SQL strings, the parser and the session planner.                        *)
(***************************************************************************)
\* the statements a SQL string is made of; "SELEC" is malformed and
\* "SELECT * FROM missing" parses but cannot be planned
SqlStatements ==
    {"CREATE TABLE t2", "DROP TABLE t", "ALTER TABLE t RENAME TO t2",
     "INSERT INTO t SELECT * FROM source", "SELECT 1", "SET x TO 1",
     "SELECT * FROM missing", "SELEC"}

Malformed == {"SELEC"}

RECURSIVE SeqsUpTo(_, _)
\* the sequences over S of length at most n
SeqsUpTo(S, n) ==
    IF n = 0 THEN {<<>>}
    ELSE LET shorter == SeqsUpTo(S, n - 1)
         IN  shorter \cup {Append(q, x) : q \in shorter, x \in S}

SqlStrings == SeqsUpTo(SqlStatements, MaxStmts)

\* CustomParser::parse_sql: the statements of the string in order, or a
\* parse error when any of them is malformed
parse_sql(sql) ==
    IF \E i \in 1..Len(sql) : sql[i] \in Malformed
    THEN [ok |-> FALSE, statements |-> <<>>]
    ELSE [ok |-> TRUE, statements |-> sql]

NoMutations == <<>>

LogicalPlan(variant, version, mutations) ==
    [variant |-> variant, catalog_version |-> version, mutations |-> mutations]

\* SessionPlanner::plan_ast: the logical plan of one statement, built against
\* the session's catalog; the variant is "PlanError" when it cannot be planned
plan_ast(stmt, sess) ==
    CASE stmt = "CREATE TABLE t2" ->
            LogicalPlan("Ddl.CreateTable", sess.version, <<CreateObject("t2")>>)
      [] stmt = "CREATE EXTERNAL TABLE t2" ->
            LogicalPlan("Ddl.CreateExternalTable", sess.version, <<CreateObject("t2")>>)
      [] stmt = "CREATE TABLE t2 AS SELECT 1" ->
            LogicalPlan("Ddl.CreateTableAs", sess.version, <<CreateObject("t2")>>)
      [] stmt = "CREATE SCHEMA s" ->
            LogicalPlan("Ddl.CreateSchema", sess.version, <<CreateObject("s")>>)
      [] stmt = "DROP TABLE t" ->
            LogicalPlan("Ddl.DropTables", sess.version, <<DropObject("t")>>)
      [] stmt = "DROP SCHEMA s" ->
            LogicalPlan("Ddl.DropSchemas", sess.version, <<DropObject("s")>>)
      [] stmt = "ALTER TABLE t RENAME TO t2" ->
            LogicalPlan("Ddl.AlterTable", sess.version,
                        <<AlterTable("public", "t", "t2")>>)
      [] stmt = "DROP CREDENTIALS c" ->
            LogicalPlan("Ddl.DropCredentials", sess.version, NoMutations)
      [] stmt = "INSERT INTO t SELECT * FROM source" ->
            LogicalPlan("Write.Insert", sess.version, NoMutations)
      [] stmt = "SELECT 1" ->
            LogicalPlan("Query", sess.version, NoMutations)
      [] stmt = "SET x TO 1" ->
            LogicalPlan("Configuration.SetConfiguration", sess.version, NoMutations)
      [] OTHER -> LogicalPlan("PlanError", sess.version, NoMutations)

(***************************************************************************)
(* Session operations the Executor calls.                                  *)
(***************************************************************************)
\* Session::create_table, create_external_table, create_table_as,
\* create_schema, drop_tables, drop_schemas: commit the plan's mutations at
\* the version the plan was built against; the session observes the new
\* version on success
session_ddl(plan, cat, sess, backend_ok) ==
    LET r == mutate_and_commit(cat, plan.catalog_version, plan.mutations,
                               backend_ok)
    IN  [ok |-> r.result = "Ok",
         err |-> r.result,
         catalog |-> r.catalog,
         session |-> IF r.result = "Ok"
                     THEN [sess EXCEPT !.version = r.version]
                     ELSE sess]

\* Session::insert: writes to table t, which must exist; the catalog is not
\* changed
session_insert(plan, cat, sess, backend_ok) ==
    [ok |-> backend_ok /\ "t" \in cat.entries,
     err |-> "StorageError",
     catalog |-> cat,
     session |-> sess]

\* Session::create_physical_plan followed by Session::execute_physical
session_query(plan, cat, sess, backend_ok) ==
    [ok |-> backend_ok, err |-> "StorageError", catalog |-> cat,
     session |-> sess]

\* Session::set_configuration: assigns a client local variable
set_configuration(plan, sess) ==
    [sess EXCEPT !.vars = sess.vars \cup {"x"}]

(***************************************************************************)
(* Statement Executor.                                                     *)
(***************************************************************************)
\* the return values of execute_next; plan is the debug form an
\* "unimplemented logical plan" error carries, empty otherwise
NoCall ==
    [tag |-> "NoCall", ok |-> FALSE, val |-> "", stmt |-> "", plan |-> ""]
None ==
    [tag |-> "None", ok |-> FALSE, val |-> "", stmt |-> "", plan |-> ""]
SomeOk(val, stmt) ==
    [tag |-> "Some", ok |-> TRUE, val |-> val, stmt |-> stmt, plan |-> ""]
SomeErr(err, stmt) ==
    [tag |-> "Some", ok |-> FALSE, val |-> err, stmt |-> stmt, plan |-> ""]

\* internal!("unimplemented logical plan: {:?}", other)
Unimplemented(other, stmt) ==
    [tag |-> "Some", ok |-> FALSE, val |-> "unimplemented logical plan",
     stmt |-> stmt, plan |-> other.variant]

\* a match whose last arm hands every other variant to the session as DDL
Awaiting_catch_all ==
    {"Ddl.CreateTable", "Ddl.CreateExternalTable", "Ddl.CreateTableAs",
     "Ddl.CreateSchema", "Ddl.DropTables", "Ddl.DropSchemas", "Write.Insert",
     "Query", "Ddl.AlterTable", "Ddl.DropCredentials"}

\* the variants execute_statement suspends on (it awaits a session operation)
Awaiting ==
    {"Ddl.CreateTable", "Ddl.CreateExternalTable", "Ddl.CreateTableAs",
     "Ddl.CreateSchema", "Ddl.DropTables", "Ddl.DropSchemas", "Write.Insert",
     "Query"}

\* a match whose CreateTableAs and DropSchemas arms return the result of
\* another arm
ExecutionResult_swapped(variant) ==
    CASE variant = "Ddl.CreateTable" -> "CreateTable"
      [] variant = "Ddl.CreateExternalTable" -> "CreateTable"
      [] variant = "Ddl.CreateTableAs" -> "WriteSuccess"
      [] variant = "Ddl.CreateSchema" -> "CreateSchema"
      [] variant = "Ddl.DropTables" -> "DropTables"
      [] variant = "Ddl.DropSchemas" -> "DropTables"
      [] variant = "Write.Insert" -> "WriteSuccess"
      [] variant = "Query" -> "Query"
      [] variant = "Configuration.SetConfiguration" -> "SetLocal"
      [] OTHER -> "unimplemented logical plan"

\* the ExecutionResult of each handled variant of execute_statement's match
ExecutionResult(variant) ==
    CASE variant = "Ddl.CreateTable" -> "CreateTable"
      [] variant = "Ddl.CreateExternalTable" -> "CreateTable"
      [] variant = "Ddl.CreateTableAs" -> "CreateTable"
      [] variant = "Ddl.CreateSchema" -> "CreateSchema"
      [] variant = "Ddl.DropTables" -> "DropTables"
      [] variant = "Ddl.DropSchemas" -> "DropSchemas"
      [] variant = "Write.Insert" -> "WriteSuccess"
      [] variant = "Query" -> "Query"
      [] variant = "Configuration.SetConfiguration" -> "SetLocal"
      [] OTHER -> "unimplemented logical plan"

\* a match whose Query arm runs the plan through the session's DDL path
session_op_query_as_ddl(plan, cat, sess, backend_ok) ==
    CASE plan.variant = "Write.Insert" -> session_insert(plan, cat, sess, backend_ok)
      [] OTHER -> session_ddl(plan, cat, sess, backend_ok)

\* the session operation of each suspending arm of execute_statement's match
session_op(plan, cat, sess, backend_ok) ==
    CASE plan.variant = "Write.Insert" -> session_insert(plan, cat, sess, backend_ok)
      [] plan.variant = "Query" -> session_query(plan, cat, sess, backend_ok)
      [] OTHER -> session_ddl(plan, cat, sess, backend_ok)

\* a pop at the wrong end of the queue
pop_back(q) == [item |-> q[Len(q)], rest |-> SubSeq(q, 1, Len(q) - 1)]

\* a read of the front that leaves it in the queue
peek_front(q) == [item |-> Head(q), rest |-> q]

\* VecDeque::pop_front on a non-empty queue: the front item and the rest
pop_front(q) == [item |-> Head(q), rest |-> Tail(q)]

\* Executor::statements_remaining
statements_remaining == Len(statements)

\* the stream of a Query result: its state ("none" when the result holds no
\* stream, then "open", "ended" or "dropped") and the batches polled from it
NoQueryStream == [state |-> "none", polled |-> 0]
OpenQueryStream == [state |-> "open", polled |-> 0]

\* the stream a result of execute_next carries: ExecutionResult::Query holds
\* the stream execute_physical returned, every other result holds none
StreamOf(result) ==
    IF result.tag = "Some" /\ result.ok /\ result.val = "Query"
    THEN OpenQueryStream
    ELSE NoQueryStream

\* the caller holds one result at a time: a step that replaces the result
\* drops the stream of the result it replaces
HeldStream == IF ret' = ret THEN query_stream ELSE StreamOf(ret')

\* a borrow of the Executor that does not exclude a suspended call
shared_borrow == exec_state = "live"

\* execute_next takes &mut self: no call starts while the future of an
\* earlier call on the same Executor is alive
exclusive_borrow == exec_state = "live" /\ running = {}

\* the statements of a string that precede its first malformed one
WellFormedPrefix(sql) ==
    IF \E i \in 1..Len(sql) : sql[i] \in Malformed
    THEN LET k == CHOOSE i \in 1..Len(sql) :
                      /\ sql[i] \in Malformed
                      /\ \A j \in 1..(i - 1) : sql[j] \notin Malformed
         IN  SubSeq(sql, 1, k - 1)
    ELSE sql

\* a constructor that parses lazily: it queues the statements that precede
\* the first malformed one instead of failing
ExecutorNew_lazy(sql) ==
    /\ exec_state = "none"
    /\ new_ret = "none"
    /\ sql_in' = sql
    /\ exec_state' = "live"
    /\ new_ret' = "ok"
    /\ statements' = WellFormedPrefix(sql)
    /\ parsed' = WellFormedPrefix(sql)
    /\ nsome' = 0
    /\ ret' = NoCall
    /\ started' = <<>>
    /\ UNCHANGED <<catalog, ncommits, session, running, phys_vars>>
    /\ query_stream' = HeldStream

\* Executor::new(sql, session)
ExecutorNew(sql) ==
    /\ exec_state = "none"
    /\ new_ret = "none"
    /\ LET r == parse_sql(sql)
       IN  /\ sql_in' = sql
           /\ IF r.ok
              THEN /\ exec_state' = "live"
                   /\ new_ret' = "ok"
                   /\ statements' = r.statements
                   /\ parsed' = r.statements
              ELSE /\ exec_state' = "none"
                   /\ new_ret' = "parse_error"
                   /\ statements' = <<>>
                   /\ parsed' = <<>>
    /\ nsome' = 0
    /\ ret' = NoCall
    /\ started' = <<>>
    /\ UNCHANGED <<catalog, ncommits, session, running, phys_vars>>
    /\ query_stream' = HeldStream

\* the caller of a failed Executor::new drops the parse error it received
ParseErrorDropped ==
    /\ new_ret = "parse_error"
    /\ new_ret' = "none"
    /\ sql_in' = <<>>
    /\ UNCHANGED <<catalog, ncommits, session, exec_state, statements, parsed,
                   nsome, running, ret, started, phys_vars>>
    /\ query_stream' = HeldStream

\* Executor::execute_next on an empty queue: pop_front()? returns None
ExecuteNextNone ==
    /\ exclusive_borrow
    /\ statements = <<>>
    /\ ret' = None
    /\ UNCHANGED <<catalog, ncommits, session, exec_state, new_ret, sql_in,
                   statements, parsed, nsome, running, started, phys_vars>>
    /\ query_stream' = HeldStream

\* a call that applies the statement's session operation while planning,
\* before it suspends
ExecuteNextCall_eager ==
    /\ exclusive_borrow
    /\ statements # <<>>
    /\ ncommits < MaxCommits
    /\ LET p == pop_front(statements)
           sess == [session EXCEPT !.version = catalog.version]
           plan == plan_ast(p.item, sess)
           o == session_op(plan, catalog, sess, TRUE)
       IN  /\ statements' = p.rest
           /\ started' = Append(started, p.item)
           /\ IF plan.variant = "PlanError"
              THEN /\ ret' = SomeErr("PlanError", p.item)
                   /\ nsome' = nsome + 1
                   /\ session' = sess
                   /\ running' = running
                   /\ UNCHANGED <<catalog, ncommits>>
              ELSE IF plan.variant \in Awaiting
              THEN /\ running' = running \cup {[stmt |-> p.item, plan |-> plan]}
                   /\ session' = o.session
                   /\ catalog' = o.catalog
                   /\ ncommits' = IF o.catalog # catalog THEN ncommits + 1
                                  ELSE ncommits
                   /\ UNCHANGED <<ret, nsome>>
              ELSE IF plan.variant = "Configuration.SetConfiguration"
              THEN /\ session' = set_configuration(plan, sess)
                   /\ ret' = SomeOk(ExecutionResult(plan.variant), p.item)
                   /\ nsome' = nsome + 1
                   /\ running' = running
                   /\ UNCHANGED <<catalog, ncommits>>
              ELSE /\ ret' = Unimplemented(plan, p.item)
                   /\ nsome' = nsome + 1
                   /\ session' = sess
                   /\ running' = running
                   /\ UNCHANGED <<catalog, ncommits>>
    /\ UNCHANGED <<exec_state, new_ret, sql_in, parsed, phys_vars>>
    /\ query_stream' = HeldStream

\* Executor::execute_next on a non-empty queue, up to the first suspension
\* of execute_statement: pops the front statement, plans it against the
\* session's catalog and either returns at once (plan error, variant without
\* a handler, SET) or awaits the session operation of the plan
ExecuteNextCall ==
    /\ exclusive_borrow
    /\ statements # <<>>
    /\ ncommits < MaxCommits
    /\ LET p == pop_front(statements)
           sess == [session EXCEPT !.version = catalog.version]
           plan == plan_ast(p.item, sess)
       IN  /\ statements' = p.rest
           /\ started' = Append(started, p.item)
           /\ IF plan.variant = "PlanError"
              THEN /\ ret' = SomeErr("PlanError", p.item)
                   /\ nsome' = nsome + 1
                   /\ session' = sess
                   /\ running' = running
              ELSE IF plan.variant \in Awaiting
              THEN /\ running' = running \cup {[stmt |-> p.item, plan |-> plan]}
                   /\ session' = sess
                   /\ UNCHANGED <<ret, nsome>>
              ELSE IF plan.variant = "Configuration.SetConfiguration"
              THEN /\ session' = set_configuration(plan, sess)
                   /\ ret' = SomeOk(ExecutionResult(plan.variant), p.item)
                   /\ nsome' = nsome + 1
                   /\ running' = running
              ELSE /\ ret' = Unimplemented(plan, p.item)
                   /\ nsome' = nsome + 1
                   /\ session' = sess
                   /\ running' = running
    /\ UNCHANGED <<catalog, ncommits, exec_state, new_ret, sql_in, parsed,
                   phys_vars>>
    /\ query_stream' = HeldStream

\* a return that gives up the rest of the script when the statement failed
ExecuteNextReturn_abort(backend_ok) ==
    /\ \E r \in running :
          LET o == session_op(r.plan, catalog, session, backend_ok)
          IN  /\ catalog' = o.catalog
              /\ ncommits' = IF o.catalog # catalog THEN ncommits + 1
                             ELSE ncommits
              /\ session' = o.session
              /\ ret' = IF o.ok
                        THEN SomeOk(ExecutionResult(r.plan.variant), r.stmt)
                        ELSE SomeErr(o.err, r.stmt)
              /\ statements' = IF o.ok THEN statements ELSE <<>>
              /\ running' = running \ {r}
    /\ nsome' = nsome + 1
    /\ UNCHANGED <<exec_state, new_ret, sql_in, parsed, started, phys_vars>>
    /\ query_stream' = StreamOf(ret')

\* the rest of Executor::execute_next: the awaited session operation
\* completes and execute_next returns Some(result)
ExecuteNextReturn(backend_ok) ==
    /\ \E r \in running :
          LET o == session_op(r.plan, catalog, session, backend_ok)
          IN  /\ catalog' = o.catalog
              /\ ncommits' = IF o.catalog # catalog THEN ncommits + 1
                             ELSE ncommits
              /\ session' = o.session
              /\ ret' = IF o.ok
                        THEN SomeOk(ExecutionResult(r.plan.variant), r.stmt)
                        ELSE SomeErr(o.err, r.stmt)
              /\ running' = running \ {r}
    /\ nsome' = nsome + 1
    /\ UNCHANGED <<exec_state, new_ret, sql_in, statements, parsed, started,
                   phys_vars>>
    /\ query_stream' = StreamOf(ret')

\* the Executor is dropped, which releases the session for the next one
ExecutorDrop ==
    /\ exec_state = "live"
    /\ running = {}
    /\ exec_state' = "none"
    /\ statements' = <<>>
    /\ parsed' = <<>>
    /\ started' = <<>>
    /\ nsome' = 0
    /\ ret' = NoCall
    /\ new_ret' = "none"
    /\ sql_in' = <<>>
    /\ UNCHANGED <<catalog, ncommits, session, running, phys_vars>>
    /\ query_stream' = HeldStream

\* the caller polls the stream of the Query result it holds: the stream
\* yields a batch, or ends
QueryStreamPoll(more) ==
    /\ query_stream.state = "open"
    /\ query_stream' = IF more /\ query_stream.polled < MaxRows
                       THEN [query_stream EXCEPT !.polled = @ + 1]
                       ELSE [query_stream EXCEPT !.state = "ended"]
    /\ UNCHANGED <<catalog, ncommits, session, exec_state, new_ret, sql_in,
                   statements, parsed, nsome, running, ret, started,
                   phys_vars>>

\* the caller abandons the stream of the Query result it holds
QueryStreamDrop ==
    /\ query_stream.state \in {"open", "ended"}
    /\ query_stream' = [query_stream EXCEPT !.state = "dropped"]
    /\ UNCHANGED <<catalog, ncommits, session, exec_state, new_ret, sql_in,
                   statements, parsed, nsome, running, ret, started,
                   phys_vars>>

\* the mutations other sessions commit
OtherMutations ==
    {AlterTable("public", "t", "t2"), AlterTable("public", "t2", "t"),
     DropObject("t"), CreateObject("t")}

\* a commit of another session, through the Catalog Mutator at the version
\* that session planned against
OtherSessionCommit(m) ==
    /\ ncommits < MaxCommits
    /\ LET r == mutate_and_commit(catalog, catalog.version, <<m>>, TRUE)
       IN  /\ r.result = "Ok"
           /\ catalog' = r.catalog
           /\ ncommits' = ncommits + 1
    /\ UNCHANGED <<exec_vars, phys_vars>>

(***************************************************************************)
(* AlterTableExec, the physical mutation operator of ALTER TABLE.          *)
(***************************************************************************)
\* the clients that hold a physical plan
Clients == {"a", "b"}

\* struct AlterTableExec
AlterTableExec(catalog_version, schema, name, operation) ==
    [present |-> TRUE, catalog_version |-> catalog_version, schema |-> schema,
     name |-> name, operation |-> operation]

NoPlan ==
    [present |-> FALSE, catalog_version |-> 0, schema |-> "", name |-> "",
     operation |-> ""]

\* the items a stream yields and the values execute returns: a batch of one
\* row, or a DataFusionError of kind Execution (a message, here with the
\* failure formatted into it), Internal (a message) or External (the boxed
\* failure itself)
OkBatch(row) == [ok |-> TRUE, val |-> row, cause |-> "", kind |-> ""]
ExecutionError(msg, cause) ==
    [ok |-> FALSE, val |-> msg, cause |-> cause, kind |-> "Execution"]
InternalError(msg) ==
    [ok |-> FALSE, val |-> msg, cause |-> "", kind |-> "Internal"]
ExternalError(cause) ==
    [ok |-> FALSE, val |-> "", cause |-> cause, kind |-> "External"]

\* no execute call has returned yet
NoReturn == [ok |-> FALSE, val |-> "none", cause |-> "", kind |-> ""]

\* Ok(Box::pin(RecordBatchStreamAdapter::new(..)))
OkStream == [ok |-> TRUE, val |-> "stream", cause |-> "", kind |-> ""]

\* one mutate_and_commit call as the Catalog Mutator receives it
Call(expected_version, mutations) ==
    [expected_version |-> expected_version, mutations |-> mutations]

\* the renames clients plan
Renames == {<<"t", "t2">>, <<"t2", "t">>}

\* a commit that presents the catalog's current version instead of the
\* version the plan was built against
alter_table_rename_blind(cat, plan, backend_ok) ==
    LET batch == <<AlterTable(plan.schema, plan.name, plan.operation)>>
        r == mutate_and_commit(cat, cat.version, batch, backend_ok)
    IN  IF r.result = "Ok"
        THEN [item |-> OkBatch("alter_table"), catalog |-> r.catalog,
              calls |-> <<Call(cat.version, batch)>>]
        ELSE [item |-> ExecutionError("failed to alter table", r.result),
              catalog |-> r.catalog,
              calls |-> <<Call(cat.version, batch)>>]

\* a commit whose error is dropped instead of returned through ?
alter_table_rename_swallow(cat, plan, backend_ok) ==
    LET batch == <<AlterTable(plan.schema, plan.name, plan.operation)>>
        r == mutate_and_commit(cat, plan.catalog_version, batch, backend_ok)
    IN  [item |-> OkBatch("alter_table"), catalog |-> r.catalog,
         calls |-> <<Call(plan.catalog_version, batch)>>]

\* a commit that is tried again at the current version after a conflict
alter_table_rename_retry(cat, plan, backend_ok) ==
    LET batch == <<AlterTable(plan.schema, plan.name, plan.operation)>>
        first == mutate_and_commit(cat, plan.catalog_version, batch, backend_ok)
        r == IF first.result = "ConflictError"
             THEN mutate_and_commit(cat, cat.version, batch, backend_ok)
             ELSE first
        calls == IF first.result = "ConflictError"
                 THEN <<Call(plan.catalog_version, batch),
                        Call(cat.version, batch)>>
                 ELSE <<Call(plan.catalog_version, batch)>>
    IN  IF r.result = "Ok"
        THEN [item |-> OkBatch("alter_table"), catalog |-> r.catalog,
              calls |-> calls]
        ELSE [item |-> ExecutionError("failed to alter table", r.result),
              catalog |-> r.catalog, calls |-> calls]

\* alter_table_rename(mutator, plan): one mutate_and_commit call with the
\* plan's catalog_version and a batch of one AlterTable mutation; the item
\* the stream yields and the catalog after the call
alter_table_rename(cat, plan, backend_ok) ==
    LET batch == <<AlterTable(plan.schema, plan.name, plan.operation)>>
        r == mutate_and_commit(cat, plan.catalog_version, batch, backend_ok)
    IN  IF r.result = "Ok"
        THEN [item |-> OkBatch("alter_table"), catalog |-> r.catalog,
              calls |-> <<Call(plan.catalog_version, batch)>>]
        ELSE [item |-> ExecutionError("failed to alter table", r.result),
              catalog |-> r.catalog,
              calls |-> <<Call(plan.catalog_version, batch)>>]

\* the physical planner builds an AlterTableExec against the catalog
\* version it reads at plan time
PlanAlterTable(c, rn) ==
    /\ ~plans[c].present
    /\ ncommits < MaxCommits
    /\ plans' = [plans EXCEPT
                    ![c] = AlterTableExec(catalog.version, "public", rn[1], rn[2])]
    /\ plan_time' = [plan_time EXCEPT ![c] = ncommits]
    /\ UNCHANGED <<catalog, ncommits, streams, exec_ret, exec_vars, ins_vars,
                   codec_vars, lib_vars>>

\* a slot that holds no stream
NoStream == [state |-> "free", items |-> <<>>, calls |-> <<>>]

\* the slots of client c that hold no stream
FreeSlots(c) == {i \in 1..MaxStreams : streams[c][i].state = "free"}

\* AlterTableExec::execute(partition, context): an error for a partition
\* other than 0, else a new stream that has not run alter_table_rename yet
Execute(c, partition) ==
    /\ plans[c].present
    /\ IF partition # 0
       THEN /\ exec_ret' = ExecutionError(
                               "AlterTableExec only supports 1 partition", "")
            /\ streams' = streams
       ELSE /\ FreeSlots(c) # {}
            /\ exec_ret' = OkStream
            /\ LET i == CHOOSE k \in FreeSlots(c) :
                            \A j \in FreeSlots(c) : k <= j
               IN  streams' = [streams EXCEPT
                      ![c][i] = [state |-> "created", items |-> <<>>,
                                 calls |-> <<>>]]
    /\ UNCHANGED <<catalog, ncommits, plans, plan_time, exec_vars, ins_vars,
                   codec_vars, lib_vars>>

\* the stream stream::once(alter_table_rename(..)) is polled: the first poll
\* runs the future and yields its item, the next one ends the stream, which
\* the caller then drops
PollStream(c, i, backend_ok) ==
    /\ i \in 1..MaxStreams
    /\ \/ /\ streams[c][i].state = "created"
          /\ LET o == alter_table_rename(catalog, plans[c], backend_ok)
             IN  /\ catalog' = o.catalog
                 /\ ncommits' = IF o.catalog # catalog THEN ncommits + 1
                                ELSE ncommits
                 /\ streams' = [streams EXCEPT
                       ![c][i] = [state |-> "yielded",
                                  items |-> Append(@.items, o.item),
                                  calls |-> @.calls \o o.calls]]
       \/ /\ streams[c][i].state = "yielded"
          /\ backend_ok
          /\ streams' = [streams EXCEPT ![c][i] = NoStream]
          /\ UNCHANGED <<catalog, ncommits>>
    /\ UNCHANGED <<plans, plan_time, exec_ret, exec_vars, ins_vars,
                   codec_vars, lib_vars>>

\* the client gives up its plan and the streams made from it
DropPlan(c) ==
    /\ plans[c].present
    /\ plans' = [plans EXCEPT ![c] = NoPlan]
    /\ plan_time' = [plan_time EXCEPT ![c] = 0]
    /\ streams' = [streams EXCEPT ![c] = [i \in 1..MaxStreams |-> NoStream]]
    /\ UNCHANGED <<catalog, ncommits, exec_ret, exec_vars, ins_vars,
                   codec_vars, lib_vars>>

(***************************************************************************)
(* NativeTableInsertExec, the physical operator of a table insert.         *)
(***************************************************************************)
\* what the input plan's metrics() returns: None, a set without an
\* output-rows metric, or a set that records the rows the plan produced
MetricsKinds == {"none", "no_output_rows", "recorded"}

\* the input plan of an insert: the rows it yields each time it is driven,
\* the kind of metrics it keeps and its output-rows counter
InputPlan(rows, metrics) ==
    [rows |-> rows, metrics |-> metrics, output_rows |-> 0]

\* the log store of the table, the versions of the table snapshot an
\* operator is built on, and deltalake's SaveMode
Stores == {"store"}
Snapshots == {0, 1}
SaveModes == {"Append", "Overwrite"}

\* NativeTableInsertExec::new(input, store, snapshot, save_mode)
NativeTableInsertExec(input, store, snapshot, save_mode) ==
    [present |-> TRUE, input |-> input, store |-> store,
     snapshot |-> snapshot, save_mode |-> save_mode]

NoInsert ==
    [present |-> FALSE, input |-> InputPlan(0, "none"), store |-> "store",
     snapshot |-> 0, save_mode |-> "Append"]

\* input.metrics(): an Option of the plan's metrics set
input_metrics(input) == [some |-> input.metrics # "none", set |-> input]

\* metrics.output_rows(): an Option of the output-rows counter
output_rows(metrics) ==
    [some |-> metrics.set.metrics = "recorded",
     val |-> metrics.set.output_rows]

\* Option::unwrap_or_default on a count
unwrap_or_default(opt) == IF opt.some THEN opt.val ELSE 0

\* WriteBuilder driven to completion: it runs the input plan, whose
\* output-rows counter grows by the rows it yields, and commits them to the
\* table in one transaction, or fails and leaves the table as it was
write(rows_before, input, backend_ok) ==
    IF backend_ok
    THEN [ok |-> TRUE, err |-> "",
          table_rows |-> rows_before + input.rows,
          input |-> IF input.metrics = "recorded"
                    THEN [input EXCEPT !.output_rows = @ + input.rows]
                    ELSE input]
    ELSE [ok |-> FALSE, err |-> "WriteError", table_rows |-> rows_before,
          input |-> input]

\* a future that writes again when the first write failed
insert_once_rewrite(rows_before, plan, backend_ok) ==
    LET first == write(rows_before, plan.input, backend_ok)
        w == IF first.ok THEN first
             ELSE write(rows_before, plan.input, TRUE)
        m == input_metrics(w.input)
        count == IF m.some THEN unwrap_or_default(output_rows(m)) ELSE 0
    IN  [item |-> OkBatch(count), table_rows |-> w.table_rows,
         input |-> w.input, writes |-> IF first.ok THEN 1 ELSE 2]

\* the future of stream::once in NativeTableInsertExec::execute: the write
\* is awaited and its failure returned as an External error; after it the
\* count is read from the input's metrics and one count batch is yielded
insert_once(rows_before, plan, backend_ok) ==
    LET w == write(rows_before, plan.input, backend_ok)
        m == input_metrics(w.input)
        count == IF m.some THEN unwrap_or_default(output_rows(m)) ELSE 0
    IN  [item |-> IF w.ok THEN OkBatch(count) ELSE ExternalError(w.err),
         table_rows |-> w.table_rows, input |-> w.input, writes |-> 1]

\* the insert's stream slot when it holds no stream
NoInsertStream == [state |-> "free", items |-> <<>>, writes |-> 0]

\* an insert plan is built over an input plan
NewInsert(rows, metrics) ==
    /\ ~ins_plan.present
    /\ ins_plan' = NativeTableInsertExec(InputPlan(rows, metrics), "store", 0,
                                         "Append")
    /\ UNCHANGED <<catalog, ncommits, exec_vars, codec_vars, lib_vars, plans, plan_time,
                   streams,
                   exec_ret, ins_stream, table_rows, nwrites>>

\* NativeTableInsertExec::execute(partition, context): an Internal error
\* for a partition other than 0, else a stream whose write has not started
InsertExecute(partition) ==
    /\ ins_plan.present
    /\ IF partition # 0
       THEN /\ exec_ret' = InternalError("Invalid requested partition")
            /\ ins_stream' = ins_stream
       ELSE /\ ins_stream.state = "free"
            /\ exec_ret' = OkStream
            /\ ins_stream' = [state |-> "created", items |-> <<>>,
                              writes |-> 0]
    /\ UNCHANGED <<catalog, ncommits, exec_vars, codec_vars, lib_vars, plans, plan_time,
                   streams,
                   ins_plan, table_rows, nwrites>>

\* the insert's stream is polled: the first poll runs the future and yields
\* its item, the next one ends the stream, which the caller then drops
InsertPoll(backend_ok) ==
    /\ \/ /\ ins_stream.state = "created"
          /\ nwrites < MaxWrites
          /\ LET o == insert_once(table_rows, ins_plan, backend_ok)
             IN  /\ table_rows' = o.table_rows
                 /\ nwrites' = IF o.item.ok THEN nwrites + 1 ELSE nwrites
                 /\ ins_plan' = [ins_plan EXCEPT !.input = o.input]
                 /\ ins_stream' = [state |-> "yielded",
                                   items |-> Append(ins_stream.items, o.item),
                                   writes |-> ins_stream.writes + o.writes]
       \/ /\ ins_stream.state = "yielded"
          /\ backend_ok
          /\ ins_stream' = NoInsertStream
          /\ UNCHANGED <<ins_plan, table_rows, nwrites>>
    /\ UNCHANGED <<catalog, ncommits, exec_vars, codec_vars, lib_vars, plans, plan_time,
                   streams,
                   exec_ret>>

\* the insert plan and its stream are dropped
InsertDrop ==
    /\ ins_plan.present
    /\ ins_plan' = NoInsert
    /\ ins_stream' = NoInsertStream
    /\ UNCHANGED <<catalog, ncommits, exec_vars, codec_vars, lib_vars, plans, plan_time,
                   streams,
                   exec_ret, table_rows, nwrites>>

(***************************************************************************)
(* DropCredentials, a DDL extension node, and its wire format.             *)
(***************************************************************************)
\* the bytes credential names are made of: a letter, and the byte that is
\* also the key of the if_exists field
NameBytes == {97, 16}

\* the credential names
Names == SeqsUpTo(NameBytes, MaxNameLen)

\* struct DropCredentials { names, if_exists }
DropCredentials(names, if_exists) ==
    [names |-> names, if_exists |-> if_exists]

\* the nodes the codec is run on
Nodes ==
    {DropCredentials(names, if_exists) :
        names \in SeqsUpTo(Names, MaxNames), if_exists \in BOOLEAN}

\* keys of the wire format: field 1 (names, length delimited) and field 2
\* (if_exists, varint) of the DropCredentials message, and the field of the
\* LogicalPlanExtension oneof that holds a DropCredentials
NamesKey == 10
IfExistsKey == 16
DropCredentialsTag == 90

RECURSIVE EncodeNames(_)
\* each name as key, length, bytes
EncodeNames(names) ==
    IF names = <<>> THEN <<>>
    ELSE <<NamesKey, Len(Head(names))>> \o Head(names)
            \o EncodeNames(Tail(names))

\* a bool field is written only when it is true
EncodeBool(key, b) == IF b THEN <<key, 1>> ELSE <<>>

\* LogicalPlanExtension::encode: the oneof's tag, the payload's length and
\* the payload
encode_message(ext) ==
    LET payload == EncodeNames(ext.inner.names)
                      \o EncodeBool(IfExistsKey, ext.inner.if_exists)
    IN  <<ext.tag, Len(payload)>> \o payload

RECURSIVE DecodeFields(_, _)
\* the fields of a DropCredentials payload read into acc, in order; ok is
\* false for a key that is not a field of the message or a field cut short
DecodeFields(bytes, acc) ==
    IF bytes = <<>> THEN acc
    ELSE IF Len(bytes) < 2 THEN [acc EXCEPT !.ok = FALSE]
    ELSE IF Head(bytes) = NamesKey
    THEN IF Len(bytes) < 2 + bytes[2] THEN [acc EXCEPT !.ok = FALSE]
         ELSE DecodeFields(
                 SubSeq(bytes, 3 + bytes[2], Len(bytes)),
                 [acc EXCEPT !.names =
                     Append(@, SubSeq(bytes, 3, 2 + bytes[2]))])
    ELSE IF Head(bytes) = IfExistsKey
    THEN DecodeFields(SubSeq(bytes, 3, Len(bytes)),
                      [acc EXCEPT !.if_exists = (bytes[2] # 0)])
    ELSE [acc EXCEPT !.ok = FALSE]

\* LogicalPlanExtension::decode: the DropCredentials message of the bytes,
\* whose fields default to no names and false; ok is false for another tag
\* or a malformed payload
decode_message(bytes) ==
    IF Len(bytes) < 2 \/ bytes[1] # DropCredentialsTag
          \/ Len(bytes) # 2 + bytes[2]
    THEN [ok |-> FALSE, names |-> <<>>, if_exists |-> FALSE]
    ELSE DecodeFields(SubSeq(bytes, 3, Len(bytes)),
                      [ok |-> TRUE, names |-> <<>>, if_exists |-> FALSE])

\* a decode that leaves the flag at its default
try_decode_no_flag(proto) ==
    [ok |-> proto.ok,
     node |-> DropCredentials(proto.names, FALSE)]

\* DropCredentials::try_decode(proto, ctx, codec)
try_decode(proto) ==
    [ok |-> proto.ok,
     node |-> DropCredentials(proto.names, proto.if_exists)]

\* DropCredentials::try_encode(buf, codec): the node's fields are copied to
\* the message, which is wrapped in the extension oneof and appended to buf
try_encode(self, buffer) ==
    LET proto == [names |-> self.names, if_exists |-> self.if_exists]
        lp_extension == [tag |-> DropCredentialsTag, inner |-> proto]
    IN  buffer \o encode_message(lp_extension)

NoDecoded == [ok |-> FALSE, node |-> DropCredentials(<<>>, FALSE)]

\* the node is encoded into an empty buffer
Encode ==
    /\ codec_pc = "node"
    /\ buf' = try_encode(node, <<>>)
    /\ codec_pc' = "encoded"
    /\ UNCHANGED <<catalog, ncommits, exec_vars, plans, plan_time, streams,
                   exec_ret, ins_vars, lib_vars, node, decoded>>

\* the buffer is decoded back into a node
Decode ==
    /\ codec_pc = "encoded"
    /\ decoded' = try_decode(decode_message(buf))
    /\ codec_pc' = "decoded"
    /\ UNCHANGED <<catalog, ncommits, exec_vars, plans, plan_time, streams,
                   exec_ret, ins_vars, lib_vars, node, buf>>

(***************************************************************************)
(* Methods of plan nodes and operators that only compute a value: a        *)
(* behaviour makes one call, which is recorded with its receiver, its      *)
(* arguments and its return value.                                         *)
(***************************************************************************)
\* the variables of the executor, the catalog and the physical operators
core_vars ==
    <<catalog, ncommits, exec_vars, plans, plan_time, streams, exec_ret,
      ins_vars>>

NoMethodCall == [fn |-> "none", self |-> <<>>, args |-> <<>>, val |-> <<>>]

MethodCall(fn, self, args, val) ==
    [fn |-> fn, self |-> self, args |-> args, val |-> val]

\* Result::Ok and Result::Err
Ok(v) == [tag |-> "Ok", val |-> v]
Err(e) == [tag |-> "Err", val |-> e]

\* the types of the extension nodes a plan may hold; all of them are
\* structs of a names list and an if_exists flag
NodeTypes == {"DropCredentials", "DropTables", "DropSchemas"}

\* a LogicalPlanExtension: a node behind dyn UserDefinedLogicalNode, which
\* carries its concrete type
Extension(type, n) == [type |-> type, node |-> n]

\* a decode that reads the fields of whatever node the extension holds
try_decode_extension_unchecked(extension) ==
    Ok(DropCredentials(extension.node.names, extension.node.if_exists))

\* DropCredentials::try_decode_extension(extension): the downcast gives the
\* node when its concrete type is DropCredentials
try_decode_extension(extension) ==
    IF extension.type = "DropCredentials"
    THEN Ok(extension.node)
    ELSE Err(InternalError("DropCredentials::try_decode_extension failed"))

\* DropCredentials::inputs
inputs(self) == <<>>

\* DropCredentials::expressions
expressions(self) == <<>>

\* a from_template that builds the node anew and leaves the flag out
from_template_rebuilt(self, exprs, new_inputs) ==
    DropCredentials(self.names, FALSE)

\* DropCredentials::from_template(_exprs, _inputs): a clone of the node
from_template(self, exprs, new_inputs) == self

\* the expression and input lists from_template is called with
ExprLists == {<<>>, <<"x">>, <<"x", "y">>}
InputLists == {<<>>, <<"scan">>}

\* an extension of some type that holds node is decoded
TryDecodeExtension(type) ==
    /\ call = NoMethodCall
    /\ codec_pc = "node"
    /\ LET extension == Extension(type, node)
       IN  call' = MethodCall("try_decode_extension", <<>>, extension,
                              try_decode_extension(extension))
    /\ UNCHANGED <<core_vars, codec_vars, slt_vars>>

\* node.inputs()
Inputs ==
    /\ call = NoMethodCall
    /\ codec_pc = "node"
    /\ call' = MethodCall("inputs", node, <<>>, inputs(node))
    /\ UNCHANGED <<core_vars, codec_vars, slt_vars>>

\* node.expressions()
Expressions ==
    /\ call = NoMethodCall
    /\ codec_pc = "node"
    /\ call' = MethodCall("expressions", node, <<>>, expressions(node))
    /\ UNCHANGED <<core_vars, codec_vars, slt_vars>>

\* node.from_template(exprs, inputs)
FromTemplate(exprs, new_inputs) ==
    /\ call = NoMethodCall
    /\ codec_pc = "node"
    /\ call' = MethodCall("from_template", node,
                          [exprs |-> exprs, inputs |-> new_inputs],
                          from_template(node, exprs, new_inputs))
    /\ UNCHANGED <<core_vars, codec_vars, slt_vars>>

\* DataFusionError::Plan
PlanningError(msg) ==
    [ok |-> FALSE, val |-> msg, cause |-> "", kind |-> "Plan"]

\* a panic of the calling thread
Panic(msg) == [tag |-> "Panic", val |-> msg]

\* AlterTableExec::children
AlterTableExec_children(self) == <<>>

\* AlterTableExec::with_new_children(children)
AlterTableExec_with_new_children(self, children) ==
    IF children = <<>>
    THEN Ok(self)
    ELSE Err(PlanningError("Cannot change children for AlterTableRenameExec"))

\* NativeTableInsertExec::children
NativeTableInsertExec_children(self) == <<self.input>>

\* a with_new_children that builds the operator with NativeTableInsertExec's
\* usual save mode
NativeTableInsertExec_with_new_children_append(self, children) ==
    IF children = <<>>
    THEN Panic("index out of bounds")
    ELSE Ok(NativeTableInsertExec(children[1], self.store, self.snapshot,
                                  "Append"))

\* NativeTableInsertExec::with_new_children(children): children[0] panics
\* on an empty list
NativeTableInsertExec_with_new_children(self, children) ==
    IF children = <<>>
    THEN Panic("index out of bounds")
    ELSE Ok(NativeTableInsertExec(children[1], self.store, self.snapshot,
                                  self.save_mode))

\* the operators and the lists of children the methods are called with
AlterOperators ==
    {AlterTableExec(v, "public", rn[1], rn[2]) :
        v \in StartVersions, rn \in Renames}

InputPlans ==
    {InputPlan(rows, metrics) : rows \in 0..MaxRows, metrics \in MetricsKinds}

InsertOperators ==
    {NativeTableInsertExec(input, store, snapshot, save_mode) :
        input \in InputPlans, store \in Stores, snapshot \in Snapshots,
        save_mode \in SaveModes}

ChildLists == SeqsUpTo(InputPlans, 2)

AlterChildren(self) ==
    /\ call = NoMethodCall
    /\ call' = MethodCall("AlterTableExec::children", self, <<>>,
                          AlterTableExec_children(self))
    /\ UNCHANGED <<core_vars, codec_vars, slt_vars>>

AlterWithNewChildren(self, children) ==
    /\ call = NoMethodCall
    /\ call' = MethodCall("AlterTableExec::with_new_children", self, children,
                          AlterTableExec_with_new_children(self, children))
    /\ UNCHANGED <<core_vars, codec_vars, slt_vars>>

InsertChildren(self) ==
    /\ call = NoMethodCall
    /\ call' = MethodCall("NativeTableInsertExec::children", self, <<>>,
                          NativeTableInsertExec_children(self))
    /\ UNCHANGED <<core_vars, codec_vars, slt_vars>>

InsertWithNewChildren(self, children) ==
    /\ call = NoMethodCall
    /\ call' = MethodCall("NativeTableInsertExec::with_new_children", self,
                          children,
                          NativeTableInsertExec_with_new_children(self, children))
    /\ UNCHANGED <<core_vars, codec_vars, slt_vars>>

(***************************************************************************)
(* RelationalPlan and its textual rendering.                               *)
(***************************************************************************)
\* enum RelationalPlan: a node and the plans it owns
Filter(input) == [kind |-> "Filter", children |-> <<input>>]
Project(input) == [kind |-> "Project", children |-> <<input>>]
Join(left, right) == [kind |-> "Join", children |-> <<left, right>>]
CrossJoin(left, right) == [kind |-> "CrossJoin", children |-> <<left, right>>]
Scan == [kind |-> "Scan", children |-> <<>>]
Values == [kind |-> "Values", children |-> <<>>]

RECURSIVE PlansOfSize(_)
\* the plans of exactly n nodes; a Values node holds two rows
PlansOfSize(n) ==
    IF n = 1 THEN {Scan, Values}
    ELSE {Filter(p) : p \in PlansOfSize(n - 1)}
            \cup {Project(p) : p \in PlansOfSize(n - 1)}
            \cup UNION {
                    {Join(l, r) : l \in PlansOfSize(i),
                                  r \in PlansOfSize(n - 1 - i)}
                       \cup {CrossJoin(l, r) : l \in PlansOfSize(i),
                                               r \in PlansOfSize(n - 1 - i)} :
                    i \in 1..(n - 2)}

RelationalPlans == UNION {PlansOfSize(n) : n \in 1..MaxPlanNodes}

\* str::repeat: n copies of the unit, kept apart
Repeat(unit, n) == [i \in 1..n |-> unit]

\* one line of the rendering: the leading units written before it, its text
\* up to the first detail, and whether it is the line of a node
Line(leading, text, header) ==
    [leading |-> leading, text |-> text, header |-> header]

\* the text each node kind starts its line with
HeaderText(kind) ==
    CASE kind = "Project" -> "Project: projections = "
      [] kind = "Filter" -> "Filter: predicate = "
      [] kind = "Join" -> "Join: type = "
      [] kind = "CrossJoin" -> "Cross join:"
      [] kind = "Scan" -> "Scan: table = "
      [] kind = "Values" -> "Values: values = ["

RECURSIVE format(_, _)
\* RelationalPlan::format(f, depth): the lines written to f
format(self, depth) ==
    LET leading == IF depth > 0 THEN Repeat("| ", depth - 1) ELSE <<>>
        next_depth == depth + 1
        header == Line(leading, HeaderText(self.kind), TRUE)
    IN  CASE self.kind \in {"Project", "Filter"} ->
                <<header>> \o format(self.children[1], next_depth)
          [] self.kind \in {"Join", "CrossJoin"} ->
                <<header>> \o format(self.children[1], next_depth)
                           \o format(self.children[2], next_depth)
          [] self.kind = "Scan" -> <<header>>
          [] self.kind = "Values" ->
                <<header, Line(<<>>, "row", FALSE), Line(<<>>, "row", FALSE),
                  Line(<<>>, "]", FALSE)>>

\* Display::fmt of a RelationalPlan
fmt(self) == format(self, 0)

\* a plan is rendered
Format(plan) ==
    /\ call = NoMethodCall
    /\ call' = MethodCall("fmt", plan, <<>>, fmt(plan))
    /\ UNCHANGED <<core_vars, codec_vars, slt_vars>>

(***************************************************************************)
(* The test runner of the sqllogictest command: SltArgs::run_tests_batched *)
(* and SltArgs::run_tests.                                                 *)
(***************************************************************************)
u8_MAX == 255

\* SltArgs with the batches run_tests_batched made, the batches it has
\* started with what each returned, and what it returned itself
SltArgs(jobs, keep_running, connection_string, batches) ==
    [pc |-> "batches", jobs |-> jobs, keep_running |-> keep_running,
     connection_string |-> connection_string, batches |-> batches,
     log |-> <<>>, ret |-> "none"]

NoSltArgs ==
    [pc |-> "idle", jobs |-> 0, keep_running |-> FALSE,
     connection_string |-> "None", batches |-> <<>>, log |-> <<>>,
     ret |-> "none"]

\* no run_tests call is running
NoRun ==
    [pc |-> "none", tests |-> <<>>, num_tests |-> 0, total_jobs |-> 0,
     results |-> <<>>, ret |-> "none"]

\* the values of --connection-string
ConnectionStrings == {"None", "Some"}

\* the loop that breaks the tests up:
\* tests.drain(0..min(batch_size, tests.len())) until a batch is empty
RECURSIVE Batches(_, _)
Batches(tests, batch_size) ==
    LET n == IF batch_size < Len(tests) THEN batch_size ELSE Len(tests)
        batch == SubSeq(tests, 1, n)
    IN  IF batch = <<>> THEN <<>>
        ELSE <<batch>> \o Batches(SubSeq(tests, n + 1, Len(tests)), batch_size)

\* let mut total_jobs = if self.jobs > 0 { self.jobs } else { u8::MAX }
job_limit(jobs) == IF jobs > 0 THEN jobs ELSE u8_MAX

\* a loop that never waits for a result before it spawns
must_wait_never(total_jobs) == FALSE

\* if total_jobs == 0: a result is received before the next test is spawned
must_wait(total_jobs) == total_jobs = 0

\* a recv without a deadline
timed_out_never(rx, passed) == FALSE

\* tokio::time::timeout_at(deadline, rx.recv()): the receive is polled
\* first, so it fails with Elapsed only when no result is waiting and the
\* deadline has passed
timed_out(rx, passed) == rx = <<>> /\ passed

\* a check of the last result only
errored_last(results) ==
    results # <<>> /\ ~results[Len(results)].ok

\* errored: some recorded result is an Err
errored(results) == \E i \in 1..Len(results) : ~results[i].ok

\* whether run_tests waits for CTRL-C before it returns the failure
keeps_running(args) == args.connection_string = "None" /\ args.keep_running

\* a loop over the batches that goes on after a batch failed
batch_returned_continue(args, r) ==
    [args EXCEPT !.pc = "batches",
                 !.log[Len(args.log)].ret = r]

\* self.run_tests(..).await?: the batch's result is recorded; an error ends
\* run_tests_batched, which returns it
batch_returned(args, r) ==
    IF r = "Ok"
    THEN [args EXCEPT !.pc = "batches",
                      !.log[Len(args.log)].ret = r]
    ELSE [args EXCEPT !.pc = "done", !.ret = r,
                      !.log[Len(args.log)].ret = r]

\* the tail of run_tests once every result is recorded: Ok when none is an
\* error; otherwise the failure, after CTRL-C when the server is kept running
Decide(results) ==
    IF errored(results)
    THEN IF keeps_running(slt)
         THEN /\ run' = [run EXCEPT !.pc = "ctrl_c", !.results = results]
              /\ slt' = slt
         ELSE /\ run' = [run EXCEPT !.pc = "returned", !.results = results,
                                    !.ret = "Test failures"]
              /\ slt' = batch_returned(slt, "Test failures")
    ELSE /\ run' = [run EXCEPT !.pc = "returned", !.results = results,
                               !.ret = "Ok"]
         /\ slt' = batch_returned(slt, "Ok")

\* SltArgs::execute: run_tests_batched(batch_size, tests, hooks) is called
\* with n tests; it breaks them up into batches
RunTestsBatched(jobs, keep_running, connection_string, batch_size, n) ==
    /\ slt.pc = "idle"
    /\ slt' = SltArgs(jobs, keep_running, connection_string,
                      Batches([i \in 1..n |-> i], batch_size))
    /\ UNCHANGED <<core_vars, codec_vars, call, run, jobs_rx, tasks, deadline>>

\* the loop over the batches calls run_tests with the next batch: the
\* channel, the job counter, the results and the deadline are set up
RunTests ==
    /\ slt.pc = "batches"
    /\ Len(slt.log) < Len(slt.batches)
    /\ LET batch == slt.batches[Len(slt.log) + 1]
       IN  /\ slt' = [slt EXCEPT !.pc = "run_tests",
                         !.log = Append(@, [batch |-> batch, ret |-> "running"])]
           /\ run' = [pc |-> IF batch = <<>> THEN "drain" ELSE "spawn",
                      tests |-> batch, num_tests |-> Len(batch),
                      total_jobs |-> job_limit(slt.jobs), results |-> <<>>,
                      ret |-> "none"]
    /\ jobs_rx' = <<>>
    /\ tasks' = {}
    /\ deadline' = FALSE
    /\ UNCHANGED <<core_vars, codec_vars, call>>

\* the loop over the batches is over: run_tests_batched returns Ok(())
BatchedReturn ==
    /\ slt.pc = "batches"
    /\ Len(slt.log) = Len(slt.batches)
    /\ slt' = [slt EXCEPT !.pc = "done", !.ret = "Ok"]
    /\ UNCHANGED <<core_vars, codec_vars, call, run, jobs_rx, tasks, deadline>>

\* the spawning loop with no job left: a result is received and recorded
SpawnRecv ==
    /\ run.pc = "spawn"
    /\ must_wait(run.total_jobs)
    /\ jobs_rx # <<>>
    /\ run' = [run EXCEPT !.total_jobs = (@ + 1) % (u8_MAX + 1),
                          !.results = Append(@, Head(jobs_rx))]
    /\ jobs_rx' = Tail(jobs_rx)
    /\ UNCHANGED <<core_vars, codec_vars, call, slt, tasks, deadline>>

\* the spawning loop spawns the next test and takes a job for it
Spawn ==
    /\ run.pc = "spawn"
    /\ ~must_wait(run.total_jobs)
    /\ run' = [run EXCEPT !.total_jobs = (@ - 1) % (u8_MAX + 1),
                          !.tests = Tail(@),
                          !.pc = IF Tail(run.tests) = <<>> THEN "drain"
                                 ELSE "spawn"]
    /\ tasks' = tasks \cup {Head(run.tests)}
    /\ UNCHANGED <<core_vars, codec_vars, call, slt, jobs_rx, deadline>>

\* a spawned test ends and sends its name and result on the channel
TestSends(name, ok) ==
    /\ run.pc \in {"spawn", "drain"}
    /\ name \in tasks
    /\ tasks' = tasks \ {name}
    /\ jobs_rx' = Append(jobs_rx, [name |-> name, ok |-> ok])
    /\ UNCHANGED <<core_vars, codec_vars, call, slt, run, deadline>>

\* the draining loop receives a result; with the last one it closes the
\* channel and run_tests goes on to its result
Drain ==
    /\ run.pc = "drain"
    /\ jobs_rx # <<>>
    /\ jobs_rx' = Tail(jobs_rx)
    /\ LET results == Append(run.results, Head(jobs_rx))
       IN  IF Len(results) = run.num_tests
           THEN Decide(results)
           ELSE /\ run' = [run EXCEPT !.results = results]
                /\ slt' = slt
    /\ UNCHANGED <<core_vars, codec_vars, call, tasks, deadline>>

\* a recv of either loop fails with Elapsed, which run_tests returns
Timeout ==
    /\ \/ run.pc = "spawn" /\ must_wait(run.total_jobs)
       \/ run.pc = "drain"
    /\ timed_out(jobs_rx, deadline)
    /\ run' = [run EXCEPT !.pc = "returned", !.ret = "Elapsed"]
    /\ slt' = batch_returned(slt, "Elapsed")
    /\ UNCHANGED <<core_vars, codec_vars, call, jobs_rx, tasks, deadline>>

\* the instant timeout_at passes while run_tests is collecting results
DeadlinePasses ==
    /\ run.pc \in {"spawn", "drain"}
    /\ ~deadline
    /\ deadline' = TRUE
    /\ UNCHANGED <<core_vars, codec_vars, call, slt, run, jobs_rx, tasks>>

\* tokio::signal::ctrl_c() completes and run_tests returns the failure
CtrlC ==
    /\ run.pc = "ctrl_c"
    /\ run' = [run EXCEPT !.pc = "returned", !.ret = "Test failures"]
    /\ slt' = batch_returned(slt, "Test failures")
    /\ UNCHANGED <<core_vars, codec_vars, call, jobs_rx, tasks, deadline>>

(***************************************************************************)
(* Specifications.                                                         *)
(***************************************************************************)
\* the state before any Executor, plan or stream exists
InitCore ==
    /\ catalog \in [version : StartVersions, entries : {{"t"}}]
    /\ ncommits = 0
    /\ session = [version |-> catalog.version, vars |-> {}]
    /\ exec_state = "none"
    /\ new_ret = "none"
    /\ sql_in = <<>>
    /\ statements = <<>>
    /\ parsed = <<>>
    /\ nsome = 0
    /\ running = {}
    /\ ret = NoCall
    /\ started = <<>>
    /\ plans = [c \in Clients |-> NoPlan]
    /\ plan_time = [c \in Clients |-> 0]
    /\ streams = [c \in Clients |-> [i \in 1..MaxStreams |-> NoStream]]
    /\ exec_ret = NoReturn
    /\ ins_plan = NoInsert
    /\ ins_stream = NoInsertStream
    /\ table_rows = 0
    /\ nwrites = 0
    /\ buf = <<>>
    /\ decoded = NoDecoded
    /\ query_stream = NoQueryStream
    /\ call = NoMethodCall
    /\ slt = NoSltArgs
    /\ run = NoRun
    /\ jobs_rx = <<>>
    /\ tasks = {}
    /\ deadline = FALSE

Init ==
    /\ InitCore
    /\ node = DropCredentials(<<>>, FALSE)
    /\ codec_pc = "idle"

\* one session driving Statement Executors while other sessions commit
Next ==
    \/ \E sql \in SqlStrings : ExecutorNew(sql)
    \/ ParseErrorDropped
    \/ ExecuteNextNone
    \/ ExecuteNextCall
    \/ \E backend_ok \in BOOLEAN : ExecuteNextReturn(backend_ok)
    \/ ExecutorDrop
    \/ \E m \in OtherMutations : OtherSessionCommit(m)

Spec == Init /\ [][Next]_vars

\* every statement kind the planner knows, one statement per string
AllStatements ==
    SqlStatements \cup
    {"CREATE EXTERNAL TABLE t2", "CREATE TABLE t2 AS SELECT 1",
     "CREATE SCHEMA s", "DROP SCHEMA s", "DROP CREDENTIALS c"}

\* one session running single statements of every kind
NextDispatch ==
    \/ \E stmt \in AllStatements : ExecutorNew(<<stmt>>)
    \/ ParseErrorDropped
    \/ ExecuteNextNone
    \/ ExecuteNextCall
    \/ \E backend_ok \in BOOLEAN : ExecuteNextReturn(backend_ok)
    \/ ExecutorDrop
    \/ \E m \in OtherMutations : OtherSessionCommit(m)

SpecDispatch == Init /\ [][NextDispatch]_vars

\* clients planning and executing AlterTableExec operators concurrently
NextPhys ==
    \/ \E c \in Clients, rn \in Renames : PlanAlterTable(c, rn)
    \/ \E c \in Clients : Execute(c, 0)
    \/ \E c \in Clients, i \in 1..MaxStreams, backend_ok \in BOOLEAN :
          PollStream(c, i, backend_ok)
    \/ \E c \in Clients : DropPlan(c)

SpecPhys == Init /\ [][NextPhys]_vars

\* the client that drives one operator of each kind
Driver == "a"

\* one client planning and executing an AlterTableExec or a
\* NativeTableInsertExec; it holds one plan at a time
NextOps ==
    \/ \E rn \in Renames : ~ins_plan.present /\ PlanAlterTable(Driver, rn)
    \/ \E partition \in 0..MaxPartition : Execute(Driver, partition)
    \/ \E i \in 1..MaxStreams, backend_ok \in BOOLEAN :
          PollStream(Driver, i, backend_ok)
    \/ DropPlan(Driver)
    \/ \E rows \in 0..MaxRows, metrics \in MetricsKinds :
          ~plans[Driver].present /\ NewInsert(rows, metrics)
    \/ \E partition \in 0..MaxPartition : InsertExecute(partition)
    \/ \E backend_ok \in BOOLEAN : InsertPoll(backend_ok)
    \/ InsertDrop

SpecOps == Init /\ [][NextOps]_vars

\* the statements whose plans commit to the catalog at once
CommitStatements == {"CREATE TABLE t2", "DROP TABLE t"}

\* one client that runs either a Statement Executor or an AlterTableExec
\* while other sessions commit
NextRetry ==
    \/ \E stmt \in CommitStatements :
          ~plans[Driver].present /\ ExecutorNew(<<stmt>>)
    \/ ExecuteNextNone
    \/ ExecuteNextCall
    \/ \E backend_ok \in BOOLEAN : ExecuteNextReturn(backend_ok)
    \/ ExecutorDrop
    \/ \E m \in OtherMutations : OtherSessionCommit(m)
    \/ \E rn \in Renames : exec_state = "none" /\ PlanAlterTable(Driver, rn)
    \/ Execute(Driver, 0)
    \/ \E i \in 1..MaxStreams, backend_ok \in BOOLEAN :
          PollStream(Driver, i, backend_ok)
    \/ DropPlan(Driver)

SpecRetry == Init /\ [][NextRetry]_vars

\* a DropCredentials node is encoded and the bytes decoded
InitCodec ==
    /\ InitCore
    /\ node \in Nodes
    /\ codec_pc = "node"

NextCodec == Encode \/ Decode

SpecCodec == InitCodec /\ [][NextCodec]_vars

\* the methods of a DropCredentials node called on nodes of every shape
NextNode ==
    \/ \E type \in NodeTypes : TryDecodeExtension(type)
    \/ Inputs
    \/ Expressions
    \/ \E exprs \in ExprLists, new_inputs \in InputLists :
          FromTemplate(exprs, new_inputs)

\* the statements of a session that reads, sets a variable and creates a
\* table
QueryStatements == {"SELECT 1", "SET x TO 1", "CREATE TABLE t2"}

\* one session running scripts of these statements and consuming or
\* abandoning the streams of its queries, while other sessions commit
NextQuery ==
    \/ \E sql \in SeqsUpTo(QueryStatements, MaxStmts) : ExecutorNew(sql)
    \/ ExecuteNextNone
    \/ ExecuteNextCall
    \/ \E backend_ok \in BOOLEAN : ExecuteNextReturn(backend_ok)
    \/ ExecutorDrop
    \/ \E more \in BOOLEAN : QueryStreamPoll(more)
    \/ QueryStreamDrop
    \/ \E m \in OtherMutations : OtherSessionCommit(m)

SpecQuery == Init /\ [][NextQuery]_vars

\* one run of the sqllogictest command
NextSlt ==
    \/ \E jobs \in 0..MaxJobs, keep_running \in BOOLEAN,
          connection_string \in ConnectionStrings,
          batch_size \in 1..MaxBatchSize, n \in 1..MaxTests :
          RunTestsBatched(jobs, keep_running, connection_string, batch_size, n)
    \/ RunTests
    \/ BatchedReturn
    \/ SpawnRecv
    \/ Spawn
    \/ \E name \in 1..MaxTests, ok \in BOOLEAN : TestSends(name, ok)
    \/ Drain
    \/ Timeout
    \/ DeadlinePasses
    \/ CtrlC

SpecSlt == Init /\ [][NextSlt]_vars

\* the runtime keeps polling the task of run_tests_batched whenever it can
\* go on, and time passes; a test may never end and CTRL-C may never come
SltFairness ==
    /\ WF_vars(RunTests)
    /\ WF_vars(BatchedReturn)
    /\ WF_vars(SpawnRecv)
    /\ WF_vars(Spawn)
    /\ WF_vars(Drain)
    /\ WF_vars(Timeout)
    /\ WF_vars(DeadlinePasses)

SpecSltFair == Init /\ [][NextSlt]_vars /\ SltFairness

SpecNode == InitCodec /\ [][NextNode]_vars

\* an optimizer asking the operators for their children and rebuilding them
NextChildren ==
    \/ \E self \in AlterOperators : AlterChildren(self)
    \/ \E self \in AlterOperators, children \in ChildLists :
          AlterWithNewChildren(self, children)
    \/ \E self \in InsertOperators : InsertChildren(self)
    \/ \E self \in InsertOperators, children \in ChildLists :
          InsertWithNewChildren(self, children)

SpecChildren == Init /\ [][NextChildren]_vars

\* plans of every shape are rendered
NextRel == \E plan \in RelationalPlans : Format(plan)

SpecRel == Init /\ [][NextRel]_vars

(***************************************************************************)
(* Properties of the Statement Executor.                                   *)
(***************************************************************************)
\* a step in which execute_next hands a statement to execute_statement
CallStep ==
    exec_state = "live" /\ exec_state' = "live" /\ started' # started

\* C1: execute_next returns None on an empty queue and then changes neither
\* the queue nor the session; on a non-empty queue it removes exactly the
\* front statement, runs it and returns Some(result or error) for that
\* statement only.
C1_ExecuteNextFront ==
    [][ /\ (exec_state = "live" /\ exec_state' = "live" /\ running = {}
               /\ statements = <<>>)
           => /\ statements' = <<>>
              /\ session' = session
              /\ running' = {}
              /\ nsome' = nsome
              /\ ret' \in {ret, None}
        /\ CallStep
           => /\ statements # <<>>
              /\ statements' = Tail(statements)
              /\ started' = Append(started, Head(statements))
              /\ \/ /\ ret' = ret
                    /\ running' # {}
                    /\ \A r \in running' : r.stmt = Head(statements)
                 \/ /\ ret'.tag = "Some"
                    /\ ret'.stmt = Head(statements)
                    /\ running' = {}
        /\ (running # {} /\ running' = {})
           => /\ ret'.tag = "Some"
              /\ \E r \in running : ret'.stmt = r.stmt
              /\ statements' = statements
      ]_vars

\* C1 witness: both statements of a two-statement string were run, front
\* first, and the call after them returned None
C1_Witness ==
    /\ ret = None
    /\ nsome = 2
    /\ Len(parsed) = 2
    /\ parsed[1] # parsed[2]
    /\ started = parsed
    /\ statements = <<>>

\* C2: statements_remaining equals N minus the number of execute_next calls
\* that returned Some (a call that has not returned yet has taken its
\* statement already); each call on a non-empty queue lowers it by exactly
\* one whether the statement succeeds or fails, and it is never negative.
C2_Remaining ==
    /\ [](/\ statements_remaining
                = Len(parsed) - nsome - Cardinality(running)
          /\ running = {} => statements_remaining = Len(parsed) - nsome
          /\ statements_remaining >= 0
          /\ nsome <= Len(parsed))
    /\ [][CallStep => Len(statements') = statements_remaining - 1]_vars

\* C2 witness: two calls returned Some, the last one an error, and nothing
\* remains of the two parsed statements
C2_Witness ==
    /\ Len(parsed) = 2
    /\ nsome = 2
    /\ running = {}
    /\ ret.tag = "Some"
    /\ ~ret.ok
    /\ statements_remaining = 0

\* C3: when a statement fails in planning or execution, execute_next returns
\* that statement's error, the statement is gone from the queue, no later
\* statement was executed by the call, and the later statements stay queued
\* in parse order: the next call runs the statement right after the failed
\* one.
C3_FailureKeepsRest ==
    /\ []((exec_state = "live" /\ running = {} /\ ret.tag = "Some" /\ ~ret.ok)
          => /\ Len(started) >= 1
             /\ Len(started) = nsome
             /\ ret.stmt = parsed[Len(started)]
             /\ statements = SubSeq(parsed, Len(started) + 1, Len(parsed)))
    /\ [][(CallStep /\ ret.tag = "Some" /\ ~ret.ok)
          => started' = Append(started, parsed[Len(started) + 1])]_vars

\* C3 witness: the first of two statements failed in execution and the
\* second is still queued
C3_Witness ==
    /\ exec_state = "live"
    /\ running = {}
    /\ ret.tag = "Some"
    /\ ~ret.ok
    /\ ret.val = "StorageError"
    /\ Len(parsed) = 2
    /\ ret.stmt = parsed[1]
    /\ statements = <<parsed[2]>>

\* C4: the statements of a queue run strictly sequentially in parse order:
\* a statement is planned only after the call of the statement before it
\* has returned, and at most one statement of the queue is in execution.
C4_Sequential ==
    /\ [](/\ Cardinality(running) <= 1
          /\ started = SubSeq(parsed, 1, Len(started))
          /\ \A r \in running : r.stmt = started[Len(started)]
          /\ nsome + Cardinality(running) = Len(started))
    /\ [][CallStep => (running = {} /\ nsome = Len(started))]_vars

\* C4 witness: the second statement is in execution after the call of the
\* first one returned
C4_Witness ==
    /\ running # {}
    /\ Len(started) = 2
    /\ nsome = 1
    /\ ret.tag = "Some"
    /\ ret.stmt = parsed[1]

\* C5: Executor::new parses the whole string first: when some statement is
\* malformed it returns the parse error, no Executor exists, and no
\* statement of the string (the well-formed ones before the malformed one
\* included) is executed or changes the session.
C5_ParseAllOrNothing ==
    /\ [](/\ (\E i \in 1..Len(sql_in) : sql_in[i] \in Malformed)
                <=> new_ret = "parse_error"
          /\ new_ret = "parse_error"
                => /\ exec_state = "none"
                   /\ statements = <<>>
                   /\ started = <<>>
                   /\ running = {}
                   /\ nsome = 0)
    /\ [][new_ret' = "parse_error"
          => /\ session' = session
             /\ new_ret # "parse_error" => catalog' = catalog]_vars

\* C5 witness: a string whose first statement is well formed and whose
\* second is malformed was rejected, and the table of the first statement
\* was not created
C5_Witness ==
    /\ new_ret = "parse_error"
    /\ sql_in = <<"CREATE TABLE t2", "SELEC">>
    /\ exec_state = "none"
    /\ "t2" \notin catalog.entries

\* C6: executing "ALTER TABLE t RENAME TO t2" through the Statement Executor
\* against a session at catalog version 5, with no commit other than the
\* statement's own, yields a success result and leaves the session's catalog
\* version at 6.
C6_AlterTableSucceeds ==
    (/\ exec_state = "live"
     /\ running = {}
     /\ started = <<"ALTER TABLE t RENAME TO t2">>
     /\ ret.tag = "Some"
     /\ ret.stmt = "ALTER TABLE t RENAME TO t2"
     /\ catalog.version - ncommits * VersionStep = 5
     /\ ncommits = (IF ret.ok THEN 1 ELSE 0))
    => (ret.ok /\ session.version = 6)

(***************************************************************************)
(* Properties of the Catalog Mutator as AlterTableExec uses it.            *)
(***************************************************************************)
\* the streams of the clients, as <<client, index>>
StreamIds == {<<c, i>> : c \in Clients, i \in 1..MaxStreams}

\* the item stream id has yielded, if any
Yielded(id) == streams[id[1]][id[2]].state = "yielded"

ItemOf(id) == streams[id[1]][id[2]].items[1]

\* a step in which the first poll of stream id runs alter_table_rename
PollCommit(id) ==
    /\ streams[id[1]][id[2]].state = "created"
    /\ streams'[id[1]][id[2]].state = "yielded"

\* C7: a batch submitted with an expected version different from the
\* catalog's current version gets a conflict error, none of its mutations
\* is applied and the catalog's version is the same after the call.
C7_StaleConflicts ==
    [][\A id \in StreamIds :
          (PollCommit(id) /\ plans[id[1]].catalog_version # catalog.version)
          => /\ catalog' = catalog
             /\ ncommits' = ncommits
             /\ ~ItemOf(id)'.ok
             /\ ItemOf(id)'.cause = "ConflictError"]_vars

\* C7 witness: a stream yielded a conflict error and its plan's version is
\* behind the catalog's
C7_Witness ==
    \E id \in StreamIds :
        /\ Yielded(id)
        /\ ItemOf(id).cause = "ConflictError"
        /\ plans[id[1]].catalog_version < catalog.version

C9_FirstCommitWins ==
    /\ [][\A id \in StreamIds :
             (PollCommit(id) /\ plans[id[1]].catalog_version = catalog.version)
             => (ItemOf(id)'.ok \/ ItemOf(id)'.cause = "StorageError")]_vars
    /\ [](\A id1 \in StreamIds :
             (Yielded(id1) /\ ItemOf(id1).ok)
             => \A id2 \in StreamIds \ {id1} :
                   (/\ Yielded(id2)
                    /\ plans[id1[1]].catalog_version
                          = plans[id2[1]].catalog_version)
                   => ~ItemOf(id2).ok)
    /\ [][\A id1 \in StreamIds :
             PollCommit(id1)
             => \A id2 \in StreamIds \ {id1} :
                   (/\ Yielded(id2)
                    /\ ItemOf(id2).ok
                    /\ plans[id1[1]].catalog_version
                          = plans[id2[1]].catalog_version)
                   => /\ ItemOf(id1)'.cause = "ConflictError"
                      /\ catalog' = catalog]_vars

\* C9 witness: two clients planned against the same version, the first
\* commit advanced the version and the second got a conflict
C9_Witness ==
    /\ plans["a"].present /\ plans["b"].present
    /\ plans["a"].catalog_version = plans["b"].catalog_version
    /\ catalog.version = plans["a"].catalog_version + VersionStep
    /\ \E i, j \in 1..MaxStreams :
          /\ Yielded(<<"a", i>>) /\ Yielded(<<"b", j>>)
          /\ ItemOf(<<"a", i>>).ok
          /\ ItemOf(<<"b", j>>).cause = "ConflictError"

\* C10: a commit succeeds only if no commit changed the catalog between the
\* time its plan captured the catalog version and the commit, and it fails
\* with a conflict exactly when there was such a change; without one it
\* succeeds or fails with the backend's error.
C10_SucceedsIffUnchanged ==
    [][\A id \in StreamIds :
          PollCommit(id)
          => /\ ItemOf(id)'.ok => ncommits = plan_time[id[1]]
             /\ (ItemOf(id)'.cause = "ConflictError")
                   <=> (ncommits # plan_time[id[1]])
             /\ ncommits = plan_time[id[1]]
                   => (ItemOf(id)'.ok \/ ItemOf(id)'.cause = "StorageError")]_vars

\* C10 witness: a plan built after an earlier commit succeeded, and a plan
\* built before that commit got a conflict
C10_Witness ==
    \E id1, id2 \in StreamIds :
        /\ Yielded(id1) /\ Yielded(id2)
        /\ plan_time[id1[1]] = 1
        /\ ItemOf(id1).ok
        /\ plan_time[id2[1]] = 0
        /\ ItemOf(id2).cause = "ConflictError"
        /\ ncommits = 2

(***************************************************************************)
(* Properties of execute_statement's dispatch.                             *)
(***************************************************************************)
\* a step in which the awaited session operation of the statement in
\* execution completes and execute_next returns
ReturnStep == running # {} /\ running' = {}

C18_Unimplemented ==
    /\ [][(CallStep /\ Head(statements) \in {"ALTER TABLE t RENAME TO t2",
                                             "DROP CREDENTIALS c"})
          => /\ ret'.tag = "Some"
             /\ ~ret'.ok
             /\ ret'.val = "unimplemented logical plan"
             /\ ret'.stmt = Head(statements)
             /\ ret'.plan = (IF Head(statements) = "DROP CREDENTIALS c"
                             THEN "Ddl.DropCredentials" ELSE "Ddl.AlterTable")
             /\ running' = {}
             /\ catalog' = catalog
             /\ ncommits' = ncommits
             /\ session'.vars = session.vars]_vars
    /\ [](\A r \in running : r.stmt \notin {"ALTER TABLE t RENAME TO t2",
                                            "DROP CREDENTIALS c"})
    /\ [](ret.plan # "" <=> (ret.tag = "Some"
                               /\ ret.val = "unimplemented logical plan"))

\* C18 witness: DROP CREDENTIALS was refused as unimplemented and nothing
\* was committed
C18_Witness ==
    /\ ret.tag = "Some"
    /\ ret.val = "unimplemented logical plan"
    /\ ret.plan = "Ddl.DropCredentials"
    /\ ret.stmt = "DROP CREDENTIALS c"
    /\ ncommits = 0
    /\ running = {}

C11_VersionMonotone ==
    [][/\ catalog'.version >= catalog.version
       /\ (catalog'.version # catalog.version)
             <=> (\E id \in StreamIds : PollCommit(id) /\ ItemOf(id)'.ok)
       /\ (catalog'.version # catalog.version)
             => /\ catalog'.version = catalog.version + VersionStep
                /\ ncommits' = ncommits + 1
       /\ \A id \in StreamIds :
             (PollCommit(id) /\ ~ItemOf(id)'.ok) => catalog' = catalog]_vars

\* C11 witness: two commits advanced the version by two steps and a third
\* attempt ended in a conflict
C11_Witness ==
    /\ ncommits = 2
    /\ \E v \in StartVersions : catalog.version = v + 2 * VersionStep
    /\ \E id1, id2 \in StreamIds :
          /\ Yielded(id1) /\ ItemOf(id1).ok
          /\ Yielded(id2) /\ ItemOf(id2).cause = "ConflictError"

\* the streams of the driver's AlterTableExec plan
DriverStreams == {<<Driver, i>> : i \in 1..MaxStreams}

\* C12: execute of AlterTableExec or NativeTableInsertExec with a partition
\* other than 0 fails with an internal error, returns no stream, produces
\* no output row and performs no catalog mutation or write.
C12_PartitionInternal ==
    [][(exec_ret' # exec_ret /\ ~exec_ret'.ok)
       => /\ exec_ret'.kind = "Internal"
          /\ streams' = streams
          /\ ins_stream' = ins_stream
          /\ catalog' = catalog
          /\ ncommits' = ncommits
          /\ table_rows' = table_rows
          /\ nwrites' = nwrites]_vars

\* a step in which the first poll of the insert's stream runs its future
InsertPollWrite ==
    ins_stream.state = "created" /\ ins_stream'.state = "yielded"

\* C13: one execution of a physical mutation operator performs its mutation
\* or write exactly once, at the first poll of its stream and not before;
\* on success the stream yields exactly one batch of one row, and the next
\* poll ends it without another mutation.  The one mutate_and_commit call
\* of AlterTableExec carries the plan's catalog_version and a batch of the
\* one AlterTable mutation with the plan's schema, name and operation.
C13_ExactlyOnce ==
    /\ [](\A id \in DriverStreams :
             LET st == streams[id[1]][id[2]]
             IN  /\ st.state \in {"free", "created"}
                    => (st.calls = <<>> /\ st.items = <<>>)
                 /\ st.state = "yielded"
                    => (Len(st.calls) = 1 /\ Len(st.items) = 1))
    /\ [](/\ ins_stream.state \in {"free", "created"}
             => (ins_stream.writes = 0 /\ ins_stream.items = <<>>)
          /\ ins_stream.state = "yielded"
             => (ins_stream.writes = 1 /\ Len(ins_stream.items) = 1))
    /\ [][\A id \in DriverStreams :
             PollCommit(id)
             => /\ streams'[id[1]][id[2]].calls
                      = <<[expected_version |-> plans[id[1]].catalog_version,
                           mutations |->
                              <<[kind |-> "AlterTable",
                                 schema |-> plans[id[1]].schema,
                                 name |-> plans[id[1]].name,
                                 operation |-> plans[id[1]].operation]>>]>>
                /\ ItemOf(id)'.ok
                      => /\ ItemOf(id)'.val = "alter_table"
                         /\ ncommits' = ncommits + 1]_vars
    /\ [][InsertPollWrite
          => (ins_stream'.items[1].ok
                => /\ nwrites' = nwrites + 1
                   /\ table_rows' = table_rows + ins_plan.input.rows)]_vars
    /\ [][(\E id \in DriverStreams :
              /\ Yielded(id)
              /\ streams'[id[1]][id[2]].state # "yielded")
          => (catalog' = catalog /\ ncommits' = ncommits)]_vars
    /\ [][(ins_stream.state = "yielded" /\ ins_stream'.state # "yielded")
          => /\ ins_stream'.state = "free"
             /\ table_rows' = table_rows
             /\ nwrites' = nwrites]_vars

\* C13 witness: an insert wrote its rows once and ended, and after it an
\* AlterTableExec stream committed once and yielded its row
C13_Witness ==
    /\ nwrites = 1
    /\ table_rows = MaxRows
    /\ ncommits = 1
    /\ \E id \in DriverStreams :
          /\ Yielded(id)
          /\ ItemOf(id).ok
          /\ Len(streams[id[1]][id[2]].calls) = 1

\* C14: when the mutate_and_commit or write step of a physical mutation
\* operator fails, the stream yields an external error that wraps the
\* backend's failure, and it yields no output row before or after it.
C14_ExternalOnFailure ==
    /\ \A id \in DriverStreams :
          (Yielded(id) /\ ~ItemOf(id).ok)
          => /\ ItemOf(id).kind = "External"
             /\ ItemOf(id).cause # ""
             /\ Len(streams[id[1]][id[2]].items) = 1
    /\ (ins_stream.state = "yielded" /\ ~ins_stream.items[1].ok)
          => /\ ins_stream.items[1].kind = "External"
             /\ ins_stream.items[1].cause # ""
             /\ Len(ins_stream.items) = 1

\* C15: a catalog version conflict is not retried: the stream of an
\* AlterTableExec that meets a conflict has made exactly one
\* mutate_and_commit call, with the plan's version, and yields the error;
\* a statement whose commit conflicts is returned as an error by the same
\* execute_next call, is not planned or run again, and the catalog is left
\* as it was.
C15_NoRetry ==
    /\ [](\A id \in DriverStreams :
             (Yielded(id) /\ ItemOf(id).cause = "ConflictError")
             => /\ Len(streams[id[1]][id[2]].calls) = 1
                /\ streams[id[1]][id[2]].calls[1].expected_version
                      = plans[id[1]].catalog_version
                /\ ~ItemOf(id).ok)
    /\ [][\A id \in DriverStreams :
             (PollCommit(id) /\ plans[id[1]].catalog_version # catalog.version)
             => /\ ItemOf(id)'.cause = "ConflictError"
                /\ catalog' = catalog
                /\ ncommits' = ncommits]_vars
    /\ [][(ReturnStep /\ \E r \in running :
                            r.plan.catalog_version # catalog.version)
          => /\ ret'.tag = "Some"
             /\ ~ret'.ok
             /\ ret'.val = "ConflictError"
             /\ catalog' = catalog
             /\ ncommits' = ncommits
             /\ statements' = statements
             /\ started' = started]_vars
    /\ [](Len(started) = nsome + Cardinality(running))

\* C15 witness: a stream of a plan built before the last commit yielded a
\* conflict after one call
C15_Witness ==
    \E id \in DriverStreams :
        /\ Yielded(id)
        /\ ItemOf(id).cause = "ConflictError"
        /\ Len(streams[id[1]][id[2]].calls) = 1
        /\ plans[id[1]].catalog_version < catalog.version

\* C16: the count row an insert yields holds the number of rows its input
\* plan produced in that write, for every input plan, one that yields no
\* row included.
C16_CountIsInputRows ==
    (ins_stream.state = "yielded" /\ ins_stream.items[1].ok)
    => ins_stream.items[1].val = ins_plan.input.rows

(***************************************************************************)
(* Properties of the DropCredentials codec.                                *)
(***************************************************************************)
\* C20: decoding what try_encode wrote for a DropCredentials node gives a
\* node equal to it, with the same names in the same order (an empty list,
\* empty names and repeated names included) and the same if_exists flag.
C20_RoundTrip ==
    codec_pc = "decoded"
    => /\ decoded.ok
       /\ decoded.node = node
       /\ Len(decoded.node.names) = Len(node.names)
       /\ \A i \in 1..Len(node.names) : decoded.node.names[i] = node.names[i]
       /\ decoded.node.if_exists = node.if_exists

\* C20 witness: a node with a repeated name, an empty name and if_exists
\* set came back equal
C20_Witness ==
    /\ codec_pc = "decoded"
    /\ node.if_exists
    /\ Len(node.names) = 3
    /\ node.names[1] = node.names[2]
    /\ node.names[1] = <<IfExistsKey>>
    /\ node.names[3] = <<>>
    /\ decoded.ok
    /\ decoded.node = node


\* C21: try_decode_extension returns a node equal to the wrapped node when
\* the extension holds a DropCredentials, and an internal error, with no
\* node at all, when it holds a node of any other type
C21_DecodeExtension ==
    call.fn = "try_decode_extension" =>
        IF call.args.type = "DropCredentials"
        THEN call.val = Ok(call.args.node)
        ELSE /\ call.val.tag = "Err"
             /\ call.val.val.kind = "Internal"

C21_Witness ==
    /\ call.fn = "try_decode_extension"
    /\ call.args.type = "DropTables"
    /\ call.args.node.names # <<>>
    /\ call.val.tag = "Err"

\* C26: a DropCredentials node is a leaf: inputs() and expressions() are
\* empty for every node, and from_template returns a node equal to the
\* original whatever expressions and inputs it is given
C26_Leaf ==
    /\ inputs(node) = <<>>
    /\ expressions(node) = <<>>
    /\ call.fn \in {"inputs", "expressions"} => call.val = <<>>
    /\ call.fn = "from_template" => call.val = call.self

C26_Witness ==
    /\ call.fn = "from_template"
    /\ call.args.exprs # <<>>
    /\ call.args.inputs # <<>>
    /\ call.self.if_exists
    /\ call.self.names # <<>>
    /\ call.val = call.self


\* C25: AlterTableExec has no children, and with_new_children returns the
\* same operator for an empty list and a plan error for any other list;
\* NativeTableInsertExec has exactly one child, its input, and
\* with_new_children replaces the input and keeps the store, the snapshot
\* and the save mode
C25_Children ==
    /\ call.fn = "AlterTableExec::children" => call.val = <<>>
    /\ call.fn = "AlterTableExec::with_new_children" =>
          IF call.args = <<>>
          THEN call.val = Ok(call.self)
          ELSE call.val.tag = "Err" /\ call.val.val.kind = "Plan"
    /\ call.fn = "NativeTableInsertExec::children" =>
          call.val = <<call.self.input>>
    /\ (call.fn = "NativeTableInsertExec::with_new_children"
            /\ call.args # <<>>) =>
          /\ call.val.tag = "Ok"
          /\ call.val.val.input = call.args[1]
          /\ call.val.val.store = call.self.store
          /\ call.val.val.snapshot = call.self.snapshot
          /\ call.val.val.save_mode = call.self.save_mode
          /\ Len(NativeTableInsertExec_children(call.val.val)) = 1

C25_Witness ==
    /\ call.fn = "NativeTableInsertExec::with_new_children"
    /\ call.args # <<>>
    /\ call.args[1] # call.self.input
    /\ call.self.save_mode = "Overwrite"
    /\ call.self.snapshot = 1
    /\ call.val.tag = "Ok"


RECURSIVE Depths(_, _)
\* the depths of the nodes of a plan in the order they are rendered, for a
\* root at depth d
Depths(plan, d) ==
    IF plan.children = <<>> THEN <<d>>
    ELSE IF Len(plan.children) = 1
    THEN <<d>> \o Depths(plan.children[1], d + 1)
    ELSE <<d>> \o Depths(plan.children[1], d + 1)
               \o Depths(plan.children[2], d + 1)

\* the lines of nodes among the lines of a rendering
HeaderLines(lines) == SelectSeq(lines, LAMBDA l : l.header)

\* C22: in the rendering of a plan the line of every node is prefixed with a
\* number of "| " units that depends on the node's depth only, depth minus
\* one for a node that has an ancestor, so that nodes at different depths
\* get different indentation and nodes at the same depth, such as both
\* children of a Join or CrossJoin, get the same
C22_Indentation ==
    call.fn = "fmt" =>
        LET depths == Depths(call.self, 0)
            lines == HeaderLines(call.val)
        IN  /\ Len(lines) = Len(depths)
            /\ \A i \in 1..Len(lines) :
                  depths[i] > 0 => Len(lines[i].leading) = depths[i] - 1
            /\ \A i, j \in 1..Len(lines) :
                  (depths[i] = depths[j])
                      <=> (Len(lines[i].leading) = Len(lines[j].leading))


\* a step in which execute makes a stream of the driver's plan
ExecuteStep ==
    \E id \in DriverStreams :
        /\ streams[id[1]][id[2]].state = "free"
        /\ streams'[id[1]][id[2]].state = "created"

\* C24: of the mutate_and_commit attempts of one AlterTableExec plan at most
\* one succeeds, however many streams execute(0) makes of it and however
\* they are polled between the commits of other sessions: an attempt
\* succeeds only while nothing was committed since the plan was built and
\* is itself a commit, commits are never undone while the plan lives, and
\* no two streams of the plan hold a success; execute and a stream that was
\* made but not polled apply nothing
C24_AtMostOnce ==
    /\ [][\A id \in DriverStreams :
             (PollCommit(id) /\ ItemOf(id)'.ok)
             => /\ ncommits = plan_time[Driver]
                /\ ncommits' = ncommits + 1
                /\ plan_time'[Driver] = plan_time[Driver]
                /\ plans'[Driver] = plans[Driver]]_vars
    /\ [][(plans[Driver].present /\ plans'[Driver] = plans[Driver])
             => /\ ncommits' >= ncommits
                /\ plan_time'[Driver] = plan_time[Driver]]_vars
    /\ [](\A id1, id2 \in DriverStreams :
             (/\ Yielded(id1) /\ ItemOf(id1).ok
              /\ Yielded(id2) /\ ItemOf(id2).ok) => id1 = id2)
    /\ [](\A id \in DriverStreams :
             streams[id[1]][id[2]].state = "created"
             => /\ streams[id[1]][id[2]].calls = <<>>
                /\ streams[id[1]][id[2]].items = <<>>)
    /\ [][ExecuteStep => (catalog' = catalog /\ ncommits' = ncommits)]_vars

\* C24 witness: two streams of the driver's plan were polled, one applied
\* the rename and the other was refused, and one commit was made in all
C24_Witness ==
    \E id1, id2 \in DriverStreams :
        /\ Yielded(id1) /\ ItemOf(id1).ok
        /\ Yielded(id2) /\ ~ItemOf(id2).ok
        /\ ItemOf(id2).cause = "ConflictError"
        /\ ncommits = plan_time[Driver] + 1


\* a step in which execute_next takes a query off the queue
QueryCallStep ==
    /\ statements # <<>>
    /\ Head(statements) = "SELECT 1"
    /\ started' = Append(started, "SELECT 1")

\* a step in which the execute_next call of a query returns
QueryReturnStep ==
    \E r \in running : r.stmt = "SELECT 1" /\ r \notin running'

\* a step in which the caller polls or abandons the stream it holds
QueryStreamStep ==
    /\ query_stream.state \in {"open", "ended"}
    /\ query_stream' # query_stream
    /\ ret' = ret

\* C23: no step of a Query statement changes the catalog, its version or
\* the session variables: not the call and the return of execute_next, and
\* not a poll of the stream or its abandonment before the first poll, after
\* some batches or at the end
C23_QueryFrame ==
    [][(QueryCallStep \/ QueryReturnStep \/ QueryStreamStep)
       => /\ catalog' = catalog
          /\ ncommits' = ncommits
          /\ session'.vars = session.vars]_vars

\* C23 witness: the stream of a query that ran after a SET and another
\* session's commit was abandoned after one batch
C23_Witness ==
    /\ query_stream.state = "dropped"
    /\ query_stream.polled = 1
    /\ ret.stmt = "SELECT 1"
    /\ session.vars # {}
    /\ ncommits > 0


\* run_tests is collecting results
Collecting == run.pc \in {"spawn", "drain"}

\* the tests that were spawned and whose result run_tests has not received:
\* those still running and those whose result waits in the channel
InFlight == Cardinality(tasks) + Len(jobs_rx)

\* a step in which run_tests spawns a test
SpawnStep == tasks' # tasks /\ Cardinality(tasks') > Cardinality(tasks)

\* C27: the number of spawned tests whose result was not yet received never
\* exceeds the job limit, which is the jobs argument or 255 when it is 0;
\* with jobs = 1 a test is spawned only when the results of all tests
\* spawned before it were received
C27_JobLimit ==
    /\ [](Collecting =>
             InFlight <= (IF slt.jobs = 0 THEN 255 ELSE slt.jobs))
    /\ [][(SpawnStep /\ slt.jobs = 1)
             => /\ InFlight = 0
                /\ Len(run.results) = run.num_tests - Len(run.tests)]_vars

\* C27 witness: with two jobs allowed and three tests in the batch, two
\* tests are in flight and the third waits to be spawned
C27_Witness ==
    /\ slt.jobs = 2
    /\ run.pc = "spawn"
    /\ run.num_tests = 3
    /\ Len(run.tests) = 1
    /\ run.total_jobs = 0
    /\ InFlight = 2

\* the results of the batches that have been started, in order
BatchRets == [i \in 1..Len(slt.log) |-> slt.log[i].ret]

\* C28: the batches run one after another in their order: the i-th batch
\* started is the i-th batch made, it is started only after every batch
\* before it returned Ok, at most the last one is running, and once a batch
\* returned an error no batch is started and run_tests_batched returns that
\* error; it returns Ok only after every batch returned Ok
C28_BatchesInOrder ==
    /\ [](/\ Len(slt.log) <= Len(slt.batches)
          /\ \A i \in 1..Len(slt.log) :
                /\ slt.log[i].batch = slt.batches[i]
                /\ i < Len(slt.log) => slt.log[i].ret = "Ok"
                /\ slt.log[i].ret = "running"
                      => (i = Len(slt.log) /\ slt.pc = "run_tests")
                /\ slt.log[i].ret \in {"Test failures", "Elapsed"}
                      => (slt.pc = "done" /\ slt.ret = slt.log[i].ret)
          /\ slt.ret = "Ok"
                => /\ Len(slt.log) = Len(slt.batches)
                   /\ \A i \in 1..Len(slt.log) : slt.log[i].ret = "Ok")
    /\ [][Len(slt.log') > Len(slt.log)
             => /\ Len(slt.log') = Len(slt.log) + 1
                /\ \A i \in 1..Len(slt.log) : slt.log[i].ret = "Ok"]_vars
    /\ [][slt.pc = "done" => slt' = slt]_vars

\* C28 witness: the second of three batches failed and run_tests_batched
\* returned the failure without starting the third
C28_Witness ==
    /\ Len(slt.batches) = 3
    /\ BatchRets = <<"Ok", "Test failures">>
    /\ slt.pc = "done"
    /\ slt.ret = "Test failures"

\* the names of the recorded results, in the order they were received
ResultNames == [i \in 1..Len(run.results) |-> run.results[i].name]

\* run_tests has gone past collecting without a timeout
Decided == run.pc = "ctrl_c" \/ (run.pc = "returned" /\ run.ret # "Elapsed")

AllSent == Collecting /\ run.tests = <<>> /\ tasks = {}

\* run_tests has stopped waiting for results
Stopped == run.pc \in {"ctrl_c", "returned"}

====
